---- MODULE Spec2Model ----
(***************************************************************************)
(* Circles falling under gravity and bouncing off rotating lines           *)
(* (circles-bouncing-off-lines.js).                                        *)
(*                                                                         *)
(* Numbers.  The program computes in IEEE doubles; the model computes in   *)
(* fixed point.  Positions and velocities are integers in units of 1/PX    *)
(* pixel (so gravity 0.06 is 6 and the radius 5 is 500), unit vectors and  *)
(* cosines are integers in units of 1/U, angles are integers in tenths of  *)
(* a degree (rotateSpeed 0.5 is 5).  A quotient is rounded to the nearest  *)
(* integer, a square root is rounded down.  The value NaN, which the       *)
(* program produces by 0/0 in unitVector, is the record NaNVec.            *)
(***************************************************************************)
EXTENDS Integers, Sequences, FiniteSets

\* ------------------------------------------------------------------ bounds

\* Number of calls of update() a behaviour runs through.
MaxTicks == 130

\* Half-width of the grid of circle positions the geometry harness draws.
GridN == 3

\* The harness draws the lines' angle from 0, 45, ..., 45 * GeomAngleMax degrees.
GeomAngleMax == 2

\* Number of points of a segment, after its first, that a closest point is
\* compared with.
SegSamples == 14

\* ------------------------------------------------------- program constants

PX == 100
U == 10000

Radius == 5 * PX
LineLen == 70 * PX
RotateSpeed == 5
Gravity == 6
SpawnY == -5 * PX
SpawnPeriod == 400

\* 0.01745 radians per degree, as micro-radians per tenth of a degree.
RadPerTenth == 1745

\* pi/2, pi and 2 pi in micro-radians.
HalfPi == 1570796
Pi == 3141593
TwoPi == 6283185

\* Canvas sizes (screen.canvas.width and height, in pixels) and frame
\* periods (milliseconds between two calls of tick) a behaviour may have.
CanvasWidths == {200, 260, 300}
CanvasHeights == {300}
FramePeriods == {17, 20, 33}

\* The clock at the first tick: new Date().getTime() exceeds 400.
NowStart == 401

\* ------------------------------------------------------------ fixed point

\* The helpers below are functions, not operators: a function's arguments
\* are evaluated once, when it is applied.

\* a / b rounded to the nearest integer (b > 0).
Div[a \in Int, b \in Int] ==
    IF a >= 0 THEN (a + b \div 2) \div b ELSE -((b \div 2 - a) \div b)

\* Newton's iteration for the square root of n, from a guess g above it.
SqrtIter[n \in Int, g \in Int] ==
    IF (g + n \div g) \div 2 >= g THEN g ELSE SqrtIter[n, (g + n \div g) \div 2]

\* Math.sqrt, rounded down.
Sqrt[n \in Int] ==
    IF n <= 0 THEN 0 ELSE IF n < 4 THEN 1 ELSE SqrtIter[n, n \div 2]

Vec(a, b) == [x |-> a, y |-> b]
Vecs == [x : Int, y : Int]
NaNVec == [nan |-> TRUE]
IsNaN(v) == "nan" \in DOMAIN v

\* Math.cos and Math.sin on [0, pi/2], by their Taylor polynomials in
\* x (units of 1/U) and its square x2.
CosPoly[x2 \in Int] ==
    U - Div[x2 * (U - Div[x2 * (U - Div[x2 * (U - Div[x2, 56]), 30 * U]),
                          12 * U]), 2 * U]

SinPoly[x \in Int, x2 \in Int] ==
    Div[x * (U - Div[x2 * (U - Div[x2 * (U - Div[x2 * (U - Div[x2, 72]),
                                                 42 * U]), 20 * U]), 6 * U]), U]

Square[x \in Int] == Div[x * x, U]
CosQ[r \in Int] == CosPoly[Square[Div[r, 100]]]
SinQ[r \in Int] == SinPoly[Div[r, 100], Square[Div[r, 100]]]

\* Math.cos and Math.sin of an angle r in [0, 2 pi), folded to [0, pi/2].
CosFolded[r \in Int] ==
    IF r <= HalfPi THEN CosQ[r]
    ELSE IF r <= Pi THEN -CosQ[Pi - r]
    ELSE IF r <= Pi + HalfPi THEN -CosQ[r - Pi]
    ELSE CosQ[TwoPi - r]

SinFolded[r \in Int] ==
    IF r <= HalfPi THEN SinQ[r]
    ELSE IF r <= Pi THEN SinQ[Pi - r]
    ELSE IF r <= Pi + HalfPi THEN -SinQ[r - Pi]
    ELSE -SinQ[TwoPi - r]

\* Math.cos and Math.sin of an angle in micro-radians, in units of 1/U.
Cos[rad \in Int] == CosFolded[rad % TwoPi]
Sin[rad \in Int] == SinFolded[rad % TwoPi]

\* ------------------------------------------------------------------- trig

\* A line: len and rotateSpeed are the same for all lines.
Lines == [center : Vecs, angle : Int]

distance[point1 \in Vecs, point2 \in Vecs] ==
    Sqrt[(point1.x - point2.x) * (point1.x - point2.x)
         + (point1.y - point2.y) * (point1.y - point2.y)]

magnitude[vector \in Vecs] == Sqrt[vector.x * vector.x + vector.y * vector.y]

\* vector / m in units of 1/U.
scaleToUnit[vector \in Vecs, m \in Int] ==
    Vec(Div[vector.x * U, m], Div[vector.y * U, m])

\* The vector divided by its magnitude, in units of 1/U; 0/0 is NaN.  The
\* quotient is taken twice so that the result's length is U to within
\* rounding whatever the length of the vector.
renormalized[a \in Vecs] == scaleToUnit[a, magnitude[a]]

unitVector[vector \in Vecs] ==
    IF magnitude[vector] = 0 THEN NaNVec
    ELSE renormalized[scaleToUnit[vector, magnitude[vector]]]

dotProduct[vector1 \in Vecs, vector2 \in Vecs] ==
    vector1.x * vector2.x + vector1.y * vector2.y

vectorBetween[startPoint \in Vecs, endPoint \in Vecs] ==
    Vec(endPoint.x - startPoint.x, endPoint.y - startPoint.y)

\* lineUnitVector * line.len / 2.
endOffsetFromCenterVector[lineUnitVector \in Vecs] ==
    Vec(Div[lineUnitVector.x * LineLen, 2 * U],
        Div[lineUnitVector.y * LineLen, 2 * U])

\* The two ends: the center plus and minus the offset.
endsAround[center \in Vecs, offset \in Vecs] ==
    << Vec(center.x + offset.x, center.y + offset.y),
       Vec(center.x - offset.x, center.y - offset.y) >>

lineEndPoints[line \in Lines] ==
    endsAround[line.center,
               endOffsetFromCenterVector[
                   unitVector[Vec(Cos[line.angle * RadPerTenth],
                                  Sin[line.angle * RadPerTenth])]]]

\* How far along the line, from lineEndPoint1, the center projects.
projection[center \in Vecs, lineEndPoint1 \in Vecs, lineUnitVector \in Vecs] ==
    Div[dotProduct[vectorBetween[lineEndPoint1, center], lineUnitVector], U]

\* Mutant of closestAt: the projection is not clamped to the segment.
closestAtUnclamped(proj, lineEndPoint1, lineEndPoint2, lineUnitVector) ==
    Vec(lineEndPoint1.x + Div[lineUnitVector.x * proj, U],
        lineEndPoint1.y + Div[lineUnitVector.y * proj, U])

\* The three branches of pointOnLineClosestToCircle.
closestAt(proj, lineEndPoint1, lineEndPoint2, lineUnitVector) ==
    IF proj <= 0 THEN lineEndPoint1
    ELSE IF proj >= LineLen THEN lineEndPoint2
    ELSE Vec(lineEndPoint1.x + Div[lineUnitVector.x * proj, U],
             lineEndPoint1.y + Div[lineUnitVector.y * proj, U])

closestOnSegment[center \in Vecs, lineEndPoint1 \in Vecs, lineEndPoint2 \in Vecs, lineUnitVector \in Vecs] ==
    closestAt(projection[center, lineEndPoint1, lineUnitVector],
              lineEndPoint1, lineEndPoint2, lineUnitVector)

closestBetween[center \in Vecs, lineEndPoint1 \in Vecs, lineEndPoint2 \in Vecs] ==
    closestOnSegment[center, lineEndPoint1, lineEndPoint2,
                     unitVector[vectorBetween[lineEndPoint1, lineEndPoint2]]]

\* Of the circle only the center is read.
pointOnLineClosestToCircle[center \in Vecs, line \in Lines] ==
    closestBetween[center, lineEndPoints[line][1], lineEndPoints[line][2]]

\* Mutant of isLineIntersectingCircle: a circle touching the line collides.
isLineIntersectingCircleOrTouching(circle, line) ==
    IF IsNaN(circle.center) THEN FALSE
    ELSE distance[circle.center,
                  pointOnLineClosestToCircle[circle.center, line]] <= Radius

\* A comparison with NaN is false.
isLineIntersectingCircle(circle, line) ==
    IF IsNaN(circle.center) THEN FALSE
    ELSE distance[circle.center,
                  pointOnLineClosestToCircle[circle.center, line]] < Radius

\* ---------------------------------------------------------------- physics

\* Mutant of applyGravity: no gravity.
applyGravityNone(circle) == circle

applyGravity(circle) ==
    IF IsNaN(circle.velocity) THEN circle
    ELSE [circle EXCEPT !.velocity = Vec(circle.velocity.x, circle.velocity.y + Gravity)]

moveCircle(circle) ==
    IF IsNaN(circle.velocity) \/ IsNaN(circle.center)
    THEN [circle EXCEPT !.center = NaNVec]
    ELSE [circle EXCEPT !.center = Vec(circle.center.x + circle.velocity.x,
                                       circle.center.y + circle.velocity.y)]

\* Called on a circle the line intersects, whose center is a number.
bounceLineNormal(circle, line) ==
    unitVector[vectorBetween[pointOnLineClosestToCircle[circle.center, line],
                             circle.center]]

\* Mutant of reflect: the bounce absorbs the velocity.
reflectAbsorbing(velocity, n) ==
    IF IsNaN(n) \/ IsNaN(velocity) THEN NaNVec ELSE Vec(0, 0)

\* Mutant of reflect: the normal component is removed, not reversed.
reflectOnce(velocity, n) ==
    IF IsNaN(n) \/ IsNaN(velocity) THEN NaNVec
    ELSE Vec(velocity.x - Div[Div[dotProduct[velocity, n], U] * n.x, U],
             velocity.y - Div[Div[dotProduct[velocity, n], U] * n.y, U])

\* The velocity reflected in the unit vector n: with dot the dot product of
\* the two, velocity -= 2 * dot * n.
reflect(velocity, n) ==
    IF IsNaN(n) \/ IsNaN(velocity) THEN NaNVec
    ELSE Vec(velocity.x - Div[2 * Div[dotProduct[velocity, n], U] * n.x, U],
             velocity.y - Div[2 * Div[dotProduct[velocity, n], U] * n.y, U])

\* ------------------------------------------------------------------ world

makeCircle(center, id) ==
    [center |-> center, velocity |-> Vec(0, 0),
     id |-> id, fresh |-> TRUE, bounced |-> FALSE]

makeLine(center) == [center |-> center, angle |-> 0]

\* A comparison with NaN is false.
isCircleInWorld(circle, worldDimensions) ==
    IF IsNaN(circle.center) THEN FALSE
    ELSE /\ circle.center.x > -Radius
         /\ circle.center.x < worldDimensions.x + Radius
         /\ circle.center.y > -Radius
         /\ circle.center.y < worldDimensions.y + Radius

\* world.circles.splice(i, 1), the sequence indexed from 1.
splice(s, k) == SubSeq(s, 1, k - 1) \o SubSeq(s, k + 1, Len(s))

\* Mutant of nextIndex: the index after a splice steps over a circle, as a
\* loop does that counts on after removing.
nextIndexSkipping(k, removed) == IF removed THEN k - 2 ELSE k - 1

\* The index updateCircles goes to after the circle at k: i--.
nextIndex(k, removed) == k - 1

\* Mutant of updateLines: the loop stops one line short.
updateLinesButLast(ls) ==
    [k \in 1..Len(ls) |->
        IF k < Len(ls) THEN [ls[k] EXCEPT !.angle = @ + RotateSpeed] ELSE ls[k]]

\* updateLines: every line's angle advances by rotateSpeed.
updateLines(ls) ==
    [k \in 1..Len(ls) |-> [ls[k] EXCEPT !.angle = @ + RotateSpeed]]

\* The world, and the place update() has reached in it.  Of a circle, id,
\* fresh (no pass has processed it yet) and bounced (it bounced in the
\* pass under way) record its history; so do processed (the ids of the
\* circles the pass under way has processed, in order), passStart (the
\* circles as the pass found them), culledFresh (a circle was removed by
\* the first pass that processed it, without having bounced in it), moved
\* (the loop of the bounce under way has moved the circle) and steps (the
\* calls of update() completed).  normal is bounceCircle's local
\* bounceLineNormal, and i and j are updateCircles' loop indices (from 1).
VARIABLES circles, lines, dimensions, timeLastCircleMade, now, frameMs,
          pc, i, j, normal, moved, steps, nextId, processed, passStart,
          culledFresh

vars == << circles, lines, dimensions, timeLastCircleMade, now, frameMs,
           pc, i, j, normal, moved, steps, nextId, processed, passStart,
           culledFresh >>

\* The five lines of start(), at the given angle.
startLines(angle) ==
    << [makeLine(Vec(100 * PX, 100 * PX)) EXCEPT !.angle = angle],
       [makeLine(Vec(200 * PX, 100 * PX)) EXCEPT !.angle = angle],
       [makeLine(Vec(150 * PX, 150 * PX)) EXCEPT !.angle = angle],
       [makeLine(Vec(100 * PX, 200 * PX)) EXCEPT !.angle = angle],
       [makeLine(Vec(220 * PX, 200 * PX)) EXCEPT !.angle = angle] >>

\* start(): five lines, no circle; the first tick is about to run.
Init ==
    /\ circles = << >>
    /\ lines = startLines(0)
    /\ \E w \in CanvasWidths, h \in CanvasHeights :
           dimensions = Vec(w * PX, h * PX)
    /\ timeLastCircleMade = 0
    /\ now = NowStart
    /\ frameMs \in FramePeriods
    /\ pc = "idle"
    /\ i = 0
    /\ j = 1
    /\ normal = Vec(0, 0)
    /\ moved = FALSE
    /\ steps = 0
    /\ nextId = 1
    /\ processed = << >>
    /\ passStart = << >>
    /\ culledFresh = FALSE

\* tick() calls update(), which enters updateCircles: i = length - 1.
Tick ==
    /\ pc = "idle"
    /\ steps < MaxTicks
    /\ i' = Len(circles)
    /\ j' = 1
    /\ pc' = IF Len(circles) = 0 THEN "create" ELSE "lines"
    /\ processed' = << >>
    /\ passStart' = circles
    /\ UNCHANGED << circles, lines, dimensions, timeLastCircleMade, now,
                    frameMs, normal, moved, steps, nextId, culledFresh >>

\* The line at j does not intersect the circle at i: on to the next line.
LineMiss ==
    /\ pc = "lines"
    /\ j <= Len(lines)
    /\ ~isLineIntersectingCircle(circles[i], lines[j])
    /\ j' = j + 1
    /\ UNCHANGED << circles, lines, dimensions, timeLastCircleMade, now,
                    frameMs, pc, i, normal, moved, steps, nextId, processed,
                    passStart, culledFresh >>

\* The line at j intersects the circle at i: bounceCircle reflects the
\* velocity and enters its loop.
BounceCircle ==
    /\ pc = "lines"
    /\ j <= Len(lines)
    /\ isLineIntersectingCircle(circles[i], lines[j])
    /\ normal' = bounceLineNormal(circles[i], lines[j])
    /\ circles' = [circles EXCEPT ![i].velocity = reflect(@, normal'),
                                  ![i].bounced = TRUE]
    /\ moved' = FALSE
    /\ pc' = "resolve"
    /\ UNCHANGED << lines, dimensions, timeLastCircleMade, now, frameMs,
                    i, j, steps, nextId, processed, passStart, culledFresh >>

\* The loop of bounceCircle: the circle still intersects the line, move it.
ResolveMove ==
    /\ pc = "resolve"
    /\ isLineIntersectingCircle(circles[i], lines[j])
    /\ circles' = [circles EXCEPT ![i] = moveCircle(@)]
    /\ moved' = TRUE
    /\ UNCHANGED << lines, dimensions, timeLastCircleMade, now, frameMs,
                    pc, i, j, normal, steps, nextId, processed, passStart,
                    culledFresh >>

\* Mutant of ResolveDone: an if in place of the while, the loop ends after
\* one move whether or not the circle is clear.
ResolveDoneAfterOneMove ==
    /\ pc = "resolve"
    /\ moved \/ ~isLineIntersectingCircle(circles[i], lines[j])
    /\ pc' = "returned"
    /\ UNCHANGED << circles, lines, dimensions, timeLastCircleMade, now,
                    frameMs, i, j, normal, moved, steps, nextId, processed,
                    passStart, culledFresh >>

\* The loop of bounceCircle ends and bounceCircle returns.
ResolveDone ==
    /\ pc = "resolve"
    /\ ~isLineIntersectingCircle(circles[i], lines[j])
    /\ pc' = "returned"
    /\ UNCHANGED << circles, lines, dimensions, timeLastCircleMade, now,
                    frameMs, i, j, normal, moved, steps, nextId, processed,
                    passStart, culledFresh >>

\* bounceCircle has returned to updateCircles: on to the next line.
AfterBounce ==
    /\ pc = "returned"
    /\ pc' = "lines"
    /\ j' = j + 1
    /\ UNCHANGED << circles, lines, dimensions, timeLastCircleMade, now,
                    frameMs, i, normal, moved, steps, nextId, processed,
                    passStart, culledFresh >>

\* All lines done for the circle at i: gravity, move, the bounds test and
\* the splice; then the next circle, or the end of updateCircles.
FinishCircle ==
    /\ pc = "lines"
    /\ j > Len(lines)
    /\ LET movedCircle == moveCircle(applyGravity(circles[i]))
           inWorld == isCircleInWorld(movedCircle, dimensions)
           kept == [circles EXCEPT ![i] = [movedCircle EXCEPT !.fresh = FALSE,
                                                               !.bounced = FALSE]]
       IN  /\ circles' = IF inWorld THEN kept ELSE splice(kept, i)
           /\ culledFresh' = (culledFresh \/
                 (~inWorld /\ circles[i].fresh /\ ~circles[i].bounced))
           /\ i' = nextIndex(i, ~inWorld)
           /\ pc' = IF nextIndex(i, ~inWorld) >= 1 THEN "lines" ELSE "create"
    /\ processed' = Append(processed, circles[i].id)
    /\ j' = 1
    /\ UNCHANGED << lines, dimensions, timeLastCircleMade, now, frameMs,
                    normal, moved, steps, nextId, passStart >>

\* createNewCircleIfDue, reading the clock.
CreateNewCircleIfDue ==
    /\ pc = "create"
    /\ IF now - timeLastCircleMade > SpawnPeriod
       THEN /\ circles' = Append(circles,
                                 makeCircle(Vec(dimensions.x \div 2, SpawnY), nextId))
            /\ timeLastCircleMade' = now
            /\ nextId' = nextId + 1
       ELSE UNCHANGED << circles, timeLastCircleMade, nextId >>
    /\ pc' = "rotate"
    /\ UNCHANGED << lines, dimensions, now, frameMs, i, j, normal, moved,
                    steps, processed, passStart, culledFresh >>

\* updateLines ends update(); the clock has advanced by the next tick.
UpdateLines ==
    /\ pc = "rotate"
    /\ lines' = updateLines(lines)
    /\ steps' = steps + 1
    /\ now' = now + frameMs
    /\ pc' = "idle"
    /\ UNCHANGED << circles, dimensions, timeLastCircleMade, frameMs, i, j,
                    normal, moved, nextId, processed, passStart, culledFresh >>

Next ==
    \/ Tick
    \/ LineMiss
    \/ BounceCircle
    \/ ResolveMove
    \/ ResolveDone
    \/ AfterBounce
    \/ FinishCircle
    \/ CreateNewCircleIfDue
    \/ UpdateLines

Spec == Init /\ [][Next]_vars

\* The program runs each call of update() to its end and the browser calls
\* tick again: a step that can be taken is taken.
FairSpec == Spec /\ WF_vars(Next)

\* ------------------------------------------------- the geometry harness

\* One call of update() on a world holding one circle, the circle's center
\* and velocity and the lines' angle drawn from bounded sets: the inputs of
\* isLineIntersectingCircle, pointOnLineClosestToCircle and bounceCircle.
GridStep == Radius \div 2
GeomOffsets == { k * GridStep : k \in -GridN..GridN }
GeomBases == { Vec(100 * PX, 100 * PX), Vec(135 * PX, 100 * PX) }
GeomVelocities ==
    { Vec(0, 0), Vec(0, 2 * PX), Vec(0, -2 * PX),
      Vec((3 * PX) \div 2, -PX), Vec(-3 * PX, PX \div 2) }
GeomAngles == { 450 * k : k \in 0..GeomAngleMax }

GeomInit ==
    /\ \E b \in GeomBases, dx \in GeomOffsets, dy \in GeomOffsets,
          v \in GeomVelocities :
           circles = << [makeCircle(Vec(b.x + dx, b.y + dy), 1)
                            EXCEPT !.velocity = v, !.fresh = FALSE] >>
    /\ \E a \in GeomAngles : lines = startLines(a)
    /\ dimensions = Vec(300 * PX, 300 * PX)
    /\ timeLastCircleMade = 0
    /\ now = NowStart
    /\ frameMs = 17
    /\ pc = "idle"
    /\ i = 0
    /\ j = 1
    /\ normal = Vec(0, 0)
    /\ moved = FALSE
    /\ steps = MaxTicks - 1
    /\ nextId = 2
    /\ processed = << >>
    /\ passStart = << >>
    /\ culledFresh = FALSE

GeomSpec == GeomInit /\ [][Next]_vars

\* The program's behaviours and the harness's.
FullSpec == (Init \/ GeomInit) /\ [][Next]_vars

\* ----------------------------------------------------------------- claims

\* The circle updateCircles is processing, and the line it has reached.
circle == circles[i]
line == lines[j]

\* C1: when bounceCircle returns, the circle it bounced does not intersect
\* the line it bounced off.
PostBounceClear ==
    pc = "returned" => ~isLineIntersectingCircle(circle, line)

\* A bounce has returned after its loop moved the circle.
PostBounceClearWitness ==
    /\ pc = "returned"
    /\ moved
    /\ ~IsNaN(circle.center)

\* C2: every bounce of updateCircles returns (its loop ends), and every
\* call of update() that has begun completes with the lines rotated.
BounceTerminates ==
    /\ [](pc = "resolve" => <>(pc = "returned"))
    /\ [](pc = "lines" => <>(pc = "idle"))

\* A bounce whose loop moved the circle has returned, in a call of update()
\* that is not the first one.
BounceTerminatesWitness ==
    /\ pc = "returned"
    /\ moved
    /\ steps >= 1

\* The ids of a sequence of circles, and a sequence reversed.
Ids(s) == [k \in 1..Len(s) |-> s[k].id]
Reverse(s) == [k \in 1..Len(s) |-> s[Len(s) + 1 - k]]

\* C3: in a pass of updateCircles the circles it found are processed once
\* each, from the last to the first, whatever is removed: the circles the
\* pass has processed are those above i, in order, and the circles below i
\* are as the pass found them.
EveryCircleOnce ==
    pc \in {"lines", "resolve", "returned", "create"} =>
        /\ i >= 0
        /\ i <= Len(passStart)
        /\ processed = Reverse(Ids(SubSeq(passStart, i + 1, Len(passStart))))
        /\ i >= 1 => /\ i <= Len(circles)
                     /\ circle.id = passStart[i].id
                     /\ SubSeq(circles, 1, i - 1) = SubSeq(passStart, 1, i - 1)

\* A pass has ended that removed a circle with circles below it, which it
\* went on to process.
EveryCircleOnceWitness ==
    /\ pc = "create"
    /\ Len(passStart) >= 3
    /\ \E k \in 2..Len(passStart) :
           \A m \in 1..Len(circles) : circles[m].id # passStart[k].id

\* C8: every line's angle is rotateSpeed times the number of completed calls
\* of update(): each call adds rotateSpeed once, at its end.
AngleAdvances ==
    \A k \in 1..Len(lines) : lines[k].angle = steps * RotateSpeed

\* Calls of update() have completed in which circles bounced and were
\* removed, and circles are in play.
AngleAdvancesWitness ==
    /\ pc = "idle"
    /\ steps >= 100
    /\ Len(circles) >= 2
    /\ nextId > Len(circles) + 1

\* C10: no circle is removed by the first pass that processes it unless it
\* bounced in that pass.
SpawnedCircleEntersPlay == ~culledFresh

\* A spawned circle has been through its first pass and is in play, one
\* step of gravity below where it was created.
SpawnedCircleEntersPlayWitness ==
    \E k \in 1..Len(circles) :
        /\ ~circles[k].fresh
        /\ circles[k].center = Vec(dimensions.x \div 2, SpawnY + Gravity)
        /\ circles[k].velocity = Vec(0, Gravity)

\* What rounding may add to a computed length (0.03 pixel), and how far
\* past an end a center must project for the end to be the closest point
\* whatever the rounding (0.1 pixel), in units of 1/PX.
Tol == (3 * PX) \div 100
Margin == PX \div 10

distanceSquared[p \in Vecs, q \in Vecs] ==
    (p.x - q.x) * (p.x - q.x) + (p.y - q.y) * (p.y - q.y)

\* updateCircles is about to test the circle at i, whose center is a number
\* (not NaN), against the line at j.
Testing == pc = "lines" /\ j <= Len(lines) /\ ~IsNaN(circle.center)

\* The closest point to the circle at i on the line at l.
closestOn(l) == pointOnLineClosestToCircle[circle.center, lines[l]]

Tangent(c, l) ==
    /\ ~IsNaN(c.center)
    /\ distanceSquared[c.center, pointOnLineClosestToCircle[c.center, l]]
           = Radius * Radius

\* C5, the test: for every circle and line updateCircles tests,
\* isLineIntersectingCircle is true exactly when the center is nearer than
\* the radius to the closest point of the line.
StrictlyInside ==
    Testing =>
        (isLineIntersectingCircle(circle, line)
            <=> distanceSquared[circle.center, closestOn(j)] < Radius * Radius)

\* C5, the caller: a circle at exactly the radius from the line it is
\* tested against is passed over, its velocity and center as they were.
TangentPassedOver ==
    (pc = "lines" /\ j <= Len(lines) /\ Tangent(circle, line)) =>
        (pc' = "lines" /\ j' = j + 1 /\ circles' = circles)

\* C5: a collision is a distance strictly below the radius; a circle
\* touching a line is not bounced.
TangencyIsNoCollision == [][StrictlyInside /\ TangentPassedOver]_vars

\* updateCircles has tested a circle against a line it touches, and has
\* gone on to the next line without a bounce.
TangencyIsNoCollisionWitness ==
    /\ pc = "lines"
    /\ j >= 2
    /\ Tangent(circle, lines[j - 1])
    /\ ~circle.bounced

\* The point at t / SegSamples of the way from e1 to e2.
samplePoint[e1 \in Vecs, e2 \in Vecs, t \in Int] ==
    Vec(e1.x + Div[(e2.x - e1.x) * t, SegSamples],
        e1.y + Div[(e2.y - e1.y) * t, SegSamples])

Min(a, b) == IF a <= b THEN a ELSE b
Max(a, b) == IF a >= b THEN a ELSE b

\* q is on the segment from e1 to e2, to within rounding.
onSegment[q \in Vecs, e1 \in Vecs, e2 \in Vecs] ==
    /\ q.x >= Min(e1.x, e2.x) - Tol
    /\ q.x <= Max(e1.x, e2.x) + Tol
    /\ q.y >= Min(e1.y, e2.y) - Tol
    /\ q.y <= Max(e1.y, e2.y) + Tol
    /\ (q.x - e1.x) * (e2.y - e1.y) - (q.y - e1.y) * (e2.x - e1.x)
           <= Tol * LineLen
    /\ (q.x - e1.x) * (e2.y - e1.y) - (q.y - e1.y) * (e2.x - e1.x)
           >= -(Tol * LineLen)

\* q is the point of the segment from e1 to e2 closest to c.
closestCheck[c \in Vecs, e1 \in Vecs, e2 \in Vecs, q \in Vecs] ==
    /\ onSegment[q, e1, e2]
    /\ \A t \in 0..SegSamples :
           distance[c, q] <= distance[c, samplePoint[e1, e2, t]] + Tol
    /\ dotProduct[vectorBetween[e1, c], vectorBetween[e1, e2]]
           <= -(Margin * LineLen) => q = e1
    /\ dotProduct[vectorBetween[e1, c], vectorBetween[e1, e2]]
           >= LineLen * LineLen + Margin * LineLen => q = e2
    /\ ( /\ dotProduct[vectorBetween[e1, c], vectorBetween[e1, e2]]
               >= Margin * LineLen
         /\ dotProduct[vectorBetween[e1, c], vectorBetween[e1, e2]]
               <= LineLen * LineLen - Margin * LineLen ) =>
           (q # e1 /\ q # e2)

\* C6: for every circle and line updateCircles tests,
\* pointOnLineClosestToCircle is on the line's segment, no sampled point of
\* the segment is nearer to the center, and it is the first end, the second
\* end or a point between them as the center projects before, beyond or
\* within the segment.
ClosestPointIsClosest ==
    Testing =>
        closestCheck[circle.center, lineEndPoints[line][1],
                     lineEndPoints[line][2], closestOn(j)]

\* A circle is tested against a line it intersects, the closest point
\* within the line, after a line whose closest point was an end.
ClosestPointIsClosestWitness ==
    /\ Testing
    /\ j >= 2
    /\ isLineIntersectingCircle(circle, line)
    /\ closestOn(j) # lineEndPoints[line][1]
    /\ closestOn(j) # lineEndPoints[line][2]
    /\ closestOn(j) # circle.center
    /\ closestOn(j - 1) \in { lineEndPoints[lines[j - 1]][1],
                              lineEndPoints[lines[j - 1]][2] }

\* C7, the reflection: bounceCircle leaves the speed as it was, to within
\* rounding, when the normal is defined.
ReflectionKeepsSpeed ==
    (pc = "lines" /\ pc' = "resolve" /\ ~IsNaN(normal')) =>
        /\ magnitude[circles'[i].velocity] <= magnitude[circle.velocity] + Tol
        /\ magnitude[circle.velocity] <= magnitude[circles'[i].velocity] + Tol

\* C7, the loop: the moves of bounceCircle's loop leave the velocity alone.
ResolveKeepsVelocity ==
    pc = "resolve" => circles'[i].velocity = circle.velocity

\* C7: a bounce whose normal is defined preserves the circle's speed.
SpeedPreserved == [][ReflectionKeepsSpeed /\ ResolveKeepsVelocity]_vars

\* A bounce with a defined normal has reversed a velocity component of at
\* least a pixel a step and moved the circle.
SpeedPreservedWitness ==
    /\ pc = "resolve"
    /\ moved
    /\ ~IsNaN(normal)
    /\ dotProduct[circle.velocity, normal] >= PX * U

ReflectedVelocityPointsAway ==
    (pc = "resolve" /\ ~IsNaN(normal)) =>
        dotProduct[circle.velocity, normal] > 0

====
